---- MODULE Spec2Model ----
(***************************************************************************)
(* Correspondent-banking flow simulator: the corridor registry             *)
(* (corridors.ts) and the playback state machine of the App component      *)
(* (App.tsx).  Every handler is one action: the handler's state updates,   *)
(* the re-render they cause (isPlayingRef.current = isPlaying) and the     *)
(* auto-advance effect (clearInterval / setInterval when nextStep changes) *)
(* happen in one step, as React commits them before the next event.        *)
(***************************************************************************)
EXTENDS Integers, Sequences, FiniteSets, TLC

----------------------------------------------------------------------------
(* Corridor registry                                                        *)

\* A decimal literal of the registry (0.5812 is Rate(5812, 10000)); amounts
\* and rates are exact decimals num / den, den a power of ten.
Rate(num, den) == [num |-> num, den |-> den]

\* An absent fxRate (falsy in `step.fxRate &&`, `step.fxRate ?`).
NoRate == Rate(0, 1)

\* interface Step: the fields the playback, the fee logic and the simulator
\* read.  An absent fee is 0 (the code tests it with `s.fee &&`, `s.fee || 0`),
\* an absent fxRate is NoRate, an absent fxFrom / fxTo is "".  messageType and
\* xmlSnippet are filled in by MessageTypes and Authored below.
Step(id, from, to, direction, fee) ==
    [id |-> id, from |-> from, to |-> to, direction |-> direction, fee |-> fee,
     fxRate |-> NoRate, fxFrom |-> "", fxTo |-> "",
     messageType |-> "", xmlSnippet |-> <<>>]

\* The steps of a sequence with their `messageType: '...'`.
MessageTypes(seq, types) ==
    [i \in 1..Len(seq) |-> [seq[i] EXCEPT !.messageType = types[i]]]

\* The steps of a sequence with their `xmlSnippet`: the text is opaque to the
\* program (it is only rendered), so it is named by the place it is authored
\* at: the corridor, the sequence and the step.
Authored(corridorId, m, seq) ==
    [i \in 1..Len(seq) |-> [seq[i] EXCEPT !.xmlSnippet = <<corridorId, m, seq[i].id>>]]

\* The step of a sequence that carries `fxRate: r, fxFrom: f, fxTo: t`.
Fx(seq, idx, r, f, t) ==
    [seq EXCEPT ![idx] = [@ EXCEPT !.fxRate = r, !.fxFrom = f, !.fxTo = t]]

\* interface Bank: only the role is read by the model.
Banks == <<"originator", "correspondent", "intermediary", "beneficiary">>

\* SerialSteps with the last status report numbered 7.
SerialStepsSkipsId(f1, f2, f3) ==
    MessageTypes(
        << Step(1, 0, 1, "forward", f1),
           Step(2, 1, 2, "forward", f2),
           Step(3, 2, 3, "forward", f3),
           Step(4, 3, 2, "backward", 0),
           Step(5, 2, 1, "backward", 0),
           Step(7, 1, 0, "backward", 0) >>,
        << "pacs.008.001.13", "pacs.008.001.13", "pacs.008.001.13",
           "pacs.002.001.15", "pacs.002.001.15", "pacs.002.001.15" >>)

\* serialSteps of a corridor: three forward hops carrying the fees f1, f2, f3
\* and three backward status reports.
SerialSteps(f1, f2, f3) ==
    MessageTypes(
        << Step(1, 0, 1, "forward", f1),
           Step(2, 1, 2, "forward", f2),
           Step(3, 2, 3, "forward", f3),
           Step(4, 3, 2, "backward", 0),
           Step(5, 2, 1, "backward", 0),
           Step(6, 1, 0, "backward", 0) >>,
        << "pacs.008.001.13", "pacs.008.001.13", "pacs.008.001.13",
           "pacs.002.001.15", "pacs.002.001.15", "pacs.002.001.15" >>)

\* CoverSteps with the customer credit transfer sent to the correspondent
\* instead of directly to the beneficiary bank.
CoverStepsNoDirect(f1, f2, f3) ==
    MessageTypes(
        << Step(1, 0, 1, "forward", f1),
           Step(2, 0, 1, "forward", 0),
           Step(3, 1, 0, "backward", 0),
           Step(4, 1, 2, "forward", f2),
           Step(5, 2, 1, "backward", 0),
           Step(6, 2, 3, "forward", f3),
           Step(7, 3, 2, "backward", 0),
           Step(8, 3, 0, "backward", 0) >>,
        << "pacs.008.001.13", "pacs.009.001.13", "pacs.002.001.15",
           "pacs.009.001.13", "camt.054.001.13", "pacs.009.001.13",
           "pacs.002.001.15", "pacs.002.001.15" >>)

\* coverSteps of a corridor: the direct pacs.008 (0 -> 3), the cover leg
\* through the intermediaries and the backward status reports.
CoverSteps(f1, f2, f3) ==
    MessageTypes(
        << Step(1, 0, 3, "forward", f1),
           Step(2, 0, 1, "forward", 0),
           Step(3, 1, 0, "backward", 0),
           Step(4, 1, 2, "forward", f2),
           Step(5, 2, 1, "backward", 0),
           Step(6, 2, 3, "forward", f3),
           Step(7, 3, 2, "backward", 0),
           Step(8, 3, 0, "backward", 0) >>,
        << "pacs.008.001.13", "pacs.009.001.13", "pacs.002.001.15",
           "pacs.009.001.13", "camt.054.001.13", "pacs.009.001.13",
           "pacs.002.001.15", "pacs.002.001.15" >>)

\* Corridor with the cover sequence's direct customer transfer free of charge.
CorridorCoverDirectFree(id, sourceCurrency, targetCurrency, defaultAmount, fxRate, serialSteps, coverSteps) ==
    [id |-> id, sourceCurrency |-> sourceCurrency,
     targetCurrency |-> targetCurrency, defaultAmount |-> defaultAmount,
     fxRate |-> fxRate, banks |-> Banks,
     serialSteps |-> Authored(id, "serial", serialSteps),
     coverSteps |-> Authored(id, "cover", [coverSteps EXCEPT ![1].fee = 0])]

\* One Corridor record.
Corridor(id, sourceCurrency, targetCurrency, defaultAmount, fxRate, serialSteps, coverSteps) ==
    [id |-> id, sourceCurrency |-> sourceCurrency,
     targetCurrency |-> targetCurrency, defaultAmount |-> defaultAmount,
     fxRate |-> fxRate, banks |-> Banks,
     serialSteps |-> Authored(id, "serial", serialSteps),
     coverSteps |-> Authored(id, "cover", coverSteps)]

\* export const CORRIDORS: Corridor[]
CORRIDORS ==
    << Corridor("sgd-gbp", "SGD", "GBP", 50000, Rate(5812, 10000),
           Fx(SerialSteps(35, 25, 15), 2, Rate(5812, 10000), "SGD", "GBP"),
           Fx(CoverSteps(35, 25, 15), 4, Rate(5812, 10000), "SGD", "GBP")),
       Corridor("usd-ngn", "USD", "NGN", 1000, Rate(15805, 10),
           Fx(SerialSteps(45, 35, 25), 3, Rate(15805, 10), "USD", "NGN"),
           Fx(CoverSteps(45, 35, 25), 6, Rate(15805, 10), "USD", "NGN")),
       Corridor("inr-usd", "INR", "USD", 500000, Rate(1195, 100000),
           Fx(SerialSteps(2500, 1500, 12), 2, Rate(1195, 100000), "INR", "USD"),
           Fx(CoverSteps(2500, 1500, 12), 4, Rate(1195, 100000), "INR", "USD")),
       Corridor("aed-php", "AED", "PHP", 5000, Rate(1524, 100),
           Fx(SerialSteps(25, 18, 10), 2, Rate(1524, 100), "AED", "PHP"),
           Fx(CoverSteps(25, 18, 10), 4, Rate(1524, 100), "AED", "PHP")),
       Corridor("jpy-mxn", "JPY", "MXN", 1000000, Rate(1142, 10000),
           Fx(Fx(SerialSteps(5500, 4000, 2000), 2, Rate(6557, 1000000), "JPY", "USD"),
              3, Rate(1741, 100), "USD", "MXN"),
           Fx(Fx(CoverSteps(5500, 4000, 2000), 4, Rate(6557, 1000000), "JPY", "USD"),
              6, Rate(1741, 100), "USD", "MXN")) >>

\* The ids the corridor buttons offer (CORRIDORS.map(c => ... c.id)).
CorridorIds == {CORRIDORS[k].id : k \in 1..Len(CORRIDORS)}

\* CORRIDORS.find(c => c.id === id)!
FindCorridor(id) ==
    CORRIDORS[CHOOSE k \in 1..Len(CORRIDORS) :
                  /\ CORRIDORS[k].id = id
                  /\ \A j \in 1..(k - 1) : CORRIDORS[j].id # id]

\* type SettlementMethod = 'serial' | 'cover'
SettlementMethod == {"serial", "cover"}

\* type ChargeBearer = 'SHA' | 'OUR' | 'BEN'
ChargeBearer == {"SHA", "OUR", "BEN"}

\* StepsOf with the method ignored.
StepsOfAlwaysSerial(corridorId, m) == FindCorridor(corridorId).serialSteps

\* const steps = method === 'serial' ? corridor.serialSteps : corridor.coverSteps
StepsOf(corridorId, m) ==
    IF m = "serial" THEN FindCorridor(corridorId).serialSteps
                    ELSE FindCorridor(corridorId).coverSteps

\* Numbers the user types into the amount input (besides clearing it).
AmountInputs == {100, 7500}

\* What NumberInput hands to onChange: a number, or a string (the empty
\* string of a cleared field) for which typeof v === 'number' is false.
InputValues ==
    {[isNumber |-> TRUE, value |-> a] : a \in AmountInputs}
        \cup {[isNumber |-> FALSE, value |-> -1]}

----------------------------------------------------------------------------
(* Monetary flow: simulateCorridor and StatsSummary                         *)

\* Exact decimals: a number is num / den with den a power of ten, kept in the
\* form with the fewest decimals so that equal numbers are equal records.
RECURSIVE Canon(_)
Canon(x) ==
    IF x.den > 1 /\ x.num % 10 = 0
    THEN Canon([num |-> x.num \div 10, den |-> x.den \div 10])
    ELSE x

\* An integer amount.
Num(i) == [num |-> i, den |-> 1]

\* a * rate for an integer a (currentAmount * step.fxRate, ... * corridor.fxRate).
Times(a, rate) == Canon([num |-> a * rate.num, den |-> rate.den])

\* The value of `convertedAmount!` when convertedAmount was never assigned.
Undefined == [num |-> 0, den |-> 0]

\* JavaScript truthiness of a number: `step.fee &&`, `step.fxRate ?`.
Truthy(x) == x.num # 0

\* FeeDeducted with the direction test inverted.
FeeDeductedOnBackward(step) ==
    IF step.fee # 0 /\ step.direction = "backward" THEN step.fee ELSE 0

\* The fee simulateCorridor subtracts at a step:
\* if (step.fee && step.direction === 'forward') currentAmount -= step.fee
FeeDeducted(step) ==
    IF step.fee # 0 /\ step.direction = "forward" THEN step.fee ELSE 0

\* currentAmount with the fee added instead of subtracted.
RECURSIVE CurrentAmountAddsFee(_, _, _)
CurrentAmountAddsFee(stps, amt, i) ==
    IF i = 0 THEN amt
    ELSE CurrentAmountAddsFee(stps, amt, i - 1) + FeeDeducted(stps[i])

\* currentAmount after the first i steps of the map.
RECURSIVE CurrentAmount(_, _, _)
CurrentAmount(stps, amt, i) ==
    IF i = 0 THEN amt
    ELSE CurrentAmount(stps, amt, i - 1) - FeeDeducted(stps[i])

\* DerivedStep with the spread losing the step's xmlSnippet.
DerivedStepDropsTemplate(corridor, stps, amt, i) ==
    LET step == stps[i]
        amountBefore == CurrentAmount(stps, amt, i - 1)
        currentAmount == CurrentAmount(stps, amt, i)
        convertedAmount ==
            IF Truthy(step.fxRate) /\ step.direction = "forward"
            THEN Times(currentAmount, step.fxRate) ELSE Undefined
    IN  [step |-> [step EXCEPT !.xmlSnippet = <<>>],
         amountBefore |-> Num(amountBefore),
         amountAfter |-> IF Truthy(step.fxRate) THEN convertedAmount
                         ELSE Num(currentAmount),
         runningCurrency |-> IF step.fxTo # "" THEN step.fxTo
                             ELSE corridor.sourceCurrency]

\* The object the map callback returns for step i: `...step` (the field
\* `step`, every property of the source step) and the three computed fields.
DerivedStep(corridor, stps, amt, i) ==
    LET step == stps[i]
        amountBefore == CurrentAmount(stps, amt, i - 1)
        currentAmount == CurrentAmount(stps, amt, i)
        convertedAmount ==
            IF Truthy(step.fxRate) /\ step.direction = "forward"
            THEN Times(currentAmount, step.fxRate) ELSE Undefined
    IN  [step |-> step,
         amountBefore |-> Num(amountBefore),
         amountAfter |-> IF Truthy(step.fxRate) THEN convertedAmount
                         ELSE Num(currentAmount),
         runningCurrency |-> IF step.fxTo # "" THEN step.fxTo
                             ELSE corridor.sourceCurrency]

\* export function simulateCorridor(corridor, steps, amount)
simulateCorridor(corridor, stps, amt) ==
    [i \in 1..Len(stps) |-> DerivedStep(corridor, stps, amt, i)]

\* The `steps` argument after the call: steps.map builds a new array and the
\* callback only reads `step` (`...step` copies its properties); nothing is
\* assigned to an element of steps.
StepsAfter(stps) == [i \in 1..Len(stps) |-> stps[i]]

\* The `corridor` argument after the call: only corridor.sourceCurrency is read.
CorridorAfter(corridor) == corridor

\* steps.filter(s => s.fee && s.direction === 'forward')
forwardSteps(stps) ==
    SelectSeq(stps, LAMBDA st : st.fee # 0 /\ st.direction = "forward")

\* forwardSteps.reduce((sum, s) => sum + (s.fee || 0), 0)
RECURSIVE SumFees(_)
SumFees(fwd) == IF fwd = <<>> THEN 0 ELSE fwd[1].fee + SumFees(Tail(fwd))

\* senderFee with SHA charging the sender nothing.
senderFeeShaPaysNothing(fwd, cb) ==
    IF cb = "OUR" THEN SumFees(fwd) ELSE 0

\* const senderFee = ...
senderFee(fwd, cb) ==
    IF cb = "OUR" THEN SumFees(fwd)
    ELSE IF cb = "BEN" THEN 0
    ELSE IF fwd = <<>> THEN 0 ELSE fwd[1].fee

\* deductedFromTransfer with SHA deducting every fee, the sender's included.
deductedFromTransferShaDeductsAll(fwd, cb) ==
    IF cb = "OUR" THEN 0 ELSE SumFees(fwd)

\* const deductedFromTransfer = ...
deductedFromTransfer(fwd, cb) ==
    IF cb = "OUR" THEN 0
    ELSE IF cb = "BEN" THEN SumFees(fwd)
    ELSE SumFees(fwd) - senderFee(fwd, cb)

\* const senderPays = amount + (chargeBearer === 'OUR' ? senderFee : 0)
senderPays(fwd, amt, cb) == amt + (IF cb = "OUR" THEN senderFee(fwd, cb) ELSE 0)

\* amountAfterDeductions with the BEN branch deducting nothing.
amountAfterDeductionsBenKeepsAll(fwd, amt, cb) ==
    amt - (IF cb = "OUR" THEN 0
           ELSE IF cb = "BEN" THEN 0
           ELSE deductedFromTransfer(fwd, cb))

\* const amountAfterDeductions = amount - (...)
amountAfterDeductions(fwd, amt, cb) ==
    amt - (IF cb = "OUR" THEN 0
           ELSE IF cb = "BEN" THEN SumFees(fwd)
           ELSE deductedFromTransfer(fwd, cb))

\* const received = amountAfterDeductions * corridor.fxRate
received(corridor, fwd, amt, cb) ==
    Times(amountAfterDeductions(fwd, amt, cb), corridor.fxRate)

\* function StatsSummary({ corridor, steps, amount, chargeBearer }): the
\* figures it computes before rendering.
StatsSummary(corridor, stps, amt, cb) ==
    LET fwd == forwardSteps(stps)
    IN  [totalFees |-> SumFees(fwd),
         senderFee |-> senderFee(fwd, cb),
         deductedFromTransfer |-> deductedFromTransfer(fwd, cb),
         senderPays |-> senderPays(fwd, amt, cb),
         amountAfterDeductions |-> amountAfterDeductions(fwd, amt, cb),
         received |-> received(corridor, fwd, amt, cb)]

\* A step sequence with every optional `fee?` left out.
StripFees(stps) == [i \in 1..Len(stps) |-> [stps[i] EXCEPT !.fee = 0]]

\* The amounts the two functions are called with.
SimAmounts == {-500, 0, 100, 1000, 7500, 50000}

\* The step sequence of a call: a registry sequence, as authored or without fees.
SimSteps(corridorId, m, feeless) ==
    IF feeless THEN StripFees(StepsOf(corridorId, m)) ELSE StepsOf(corridorId, m)

\* No call made yet.
NotRun == [ran |-> FALSE]

----------------------------------------------------------------------------
(* State of the App component                                               *)

VARIABLES
    selectedCorridor,  \* useState(CORRIDORS[0].id)
    amount,            \* useState(CORRIDORS[0].defaultAmount)
    currentStep,       \* useState(-1): the playback cursor
    isPlaying,         \* useState(false)
    chargeBearer,      \* useState('SHA')
    method,            \* useState('serial')
    isPlayingRef,      \* useRef(isPlaying).current
    intervals,         \* live setInterval timers, each with the steps its nextStep captured
    intervalId,        \* the timer the current effect's cleanup will clear
    lastOp,            \* the handler that ran last, its argument, whether it called nextStep
    pre,               \* the state that handler started from
    nextOnly,          \* since the cursor was last -1, only nextStep calls have run
    sim,               \* the last call of simulateCorridor / StatsSummary: arguments and results
    idle               \* the user has stopped operating the controls: only the timer runs

vars == <<selectedCorridor, amount, currentStep, isPlaying, chargeBearer, method,
          isPlayingRef, intervals, intervalId, lastOp, pre, nextOnly, sim, idle>>

\* The variables of the App component and of the user operating it.
appVars == <<selectedCorridor, amount, currentStep, isPlaying, chargeBearer, method,
             isPlayingRef, intervals, intervalId, lastOp, pre, nextOnly, idle>>

\* The steps array of the current render and its length n.
steps == StepsOf(selectedCorridor, method)
n == Len(steps)

\* const isComplete = currentStep >= steps.length - 1
isComplete == currentStep >= n - 1

\* The session state a handler starts from.
Snapshot ==
    [selectedCorridor |-> selectedCorridor, amount |-> amount,
     currentStep |-> currentStep, isPlaying |-> isPlaying,
     chargeBearer |-> chargeBearer, method |-> method,
     n |-> n, intervals |-> intervals]

\* sel is the handler's string argument ("" if none), num its numeric one (-1 if none).
Op(name, sel, num, calledNext) ==
    [name |-> name, sel |-> sel, num |-> num, calledNext |-> calledNext]

----------------------------------------------------------------------------
(* Timers                                                                   *)

\* setInterval(...) returns a handle no live timer uses.
FreshIntervalId(live) ==
    CHOOSE i \in 1..(Cardinality(live) + 1) : \A t \in live : t.id # i

\* clearInterval(interval) of the effect's cleanup.
ClearInterval(live, id) == {t \in live : t.id # id}

\* EffectIntervals with the effect run on mount only (deps []): the first
\* timer, around the first nextStep, lives on.
EffectIntervalsOnMountOnly(live, id, oldKey, newKey) == live

\* The auto-advance effect, deps [nextStep]: nextStep is a new function
\* exactly when `steps` is a different array, and then the cleanup clears the
\* old timer and a new one is created around the new nextStep.
EffectIntervals(live, id, oldKey, newKey) ==
    IF oldKey = newKey THEN live
    ELSE LET cleared == ClearInterval(live, id)
         IN  cleared \cup {[id |-> FreshIntervalId(cleared), steps |-> newKey]}

EffectIntervalId(live, id, oldKey, newKey) ==
    IF oldKey = newKey THEN id
    ELSE FreshIntervalId(ClearInterval(live, id))

\* Re-render and effects after a handler that left corridor c and method m.
Render(c, m, playing) ==
    /\ isPlayingRef' = playing
    /\ intervals' = EffectIntervals(intervals, intervalId,
                                    <<selectedCorridor, method>>, <<c, m>>)
    /\ intervalId' = EffectIntervalId(intervals, intervalId,
                                      <<selectedCorridor, method>>, <<c, m>>)

----------------------------------------------------------------------------
(* Updaters                                                                 *)

Max(a, b) == IF a >= b THEN a ELSE b

\* Variants of the updaters below, each with one plausible slip.
NextStepCursorUnbounded(prev, len) == prev + 1

NextStepCursorWraps(prev, len) == IF prev >= len - 1 THEN 0 ELSE prev + 1

NextStepPlayingNeverStops(prev, len, playing) == playing

PrevStepCursorSkips(prev) == Max(-1, prev - 2)

TogglePlayPlayingAlwaysFlips(cur, len, playing) == ~playing

TimerCallsNextIgnoresRef(ref) == TRUE

TimerCallsNextNever(ref) == FALSE

TogglePlayCursorStaysUnstarted(cur, len) == IF cur >= len - 1 THEN 0 ELSE cur

\* The updater nextStep passes to setCurrentStep, over a steps array of
\* length len: the new cursor.
NextStepCursor(prev, len) == IF prev >= len - 1 THEN prev ELSE prev + 1

\* The same updater's setIsPlaying(false) at the last step.
NextStepPlaying(prev, len, playing) == IF prev >= len - 1 THEN FALSE ELSE playing

\* prevStep's updater.
PrevStepCursor(prev) == Max(-1, prev - 1)

\* togglePlay: the new cursor.
TogglePlayCursor(cur, len) ==
    IF cur >= len - 1 THEN 0
    ELSE IF cur = -1 THEN 0 ELSE cur

\* togglePlay: the new isPlaying.
TogglePlayPlaying(cur, len, playing) ==
    IF cur >= len - 1 THEN TRUE ELSE ~playing

\* selectCorridor's setAmount.
SelectCorridorAmount(id, old) == FindCorridor(id).defaultAmount

\* The interval callback: if (isPlayingRef.current) nextStep().
TimerCallsNext(ref) == ref

----------------------------------------------------------------------------
(* Initial state and handlers                                               *)

Init ==
    /\ selectedCorridor = CORRIDORS[1].id
    /\ amount = CORRIDORS[1].defaultAmount
    /\ currentStep = -1
    /\ isPlaying = FALSE
    /\ chargeBearer = "SHA"
    /\ method = "serial"
    /\ isPlayingRef = FALSE
    /\ intervals = {[id |-> 1, steps |-> <<CORRIDORS[1].id, "serial">>]}
    /\ intervalId = 1
    /\ lastOp = Op("mount", "", -1, FALSE)
    /\ pre = [selectedCorridor |-> CORRIDORS[1].id,
              amount |-> CORRIDORS[1].defaultAmount,
              currentStep |-> -1, isPlaying |-> FALSE, chargeBearer |-> "SHA",
              method |-> "serial", n |-> Len(CORRIDORS[1].serialSteps),
              intervals |-> {}]
    /\ nextOnly = TRUE
    /\ sim = NotRun
    /\ idle = FALSE

\* Bookkeeping shared by the handlers.
Record(name, sel, num, calledNext) ==
    /\ lastOp' = Op(name, sel, num, calledNext)
    /\ pre' = Snapshot
    /\ nextOnly' = IF currentStep' = -1 THEN TRUE
                   ELSE IF calledNext \/ name = "tick" THEN nextOnly ELSE FALSE
    /\ UNCHANGED <<sim, idle>>

\* onClick={() => selectCorridor(c.id)}
selectCorridor(id) ==
    /\ selectedCorridor' = id
    /\ amount' = SelectCorridorAmount(id, amount)
    /\ currentStep' = -1
    /\ isPlaying' = FALSE
    /\ UNCHANGED <<chargeBearer, method>>
    /\ Render(id, method, FALSE)
    /\ Record("selectCorridor", id, -1, FALSE)

\* selectMethod without its setIsPlaying(false).
selectMethodKeepsPlaying(m) ==
    /\ method' = m
    /\ currentStep' = -1
    /\ UNCHANGED <<selectedCorridor, amount, chargeBearer, isPlaying>>
    /\ Render(selectedCorridor, m, isPlaying)
    /\ Record("selectMethod", m, -1, FALSE)

\* SegmentedControl onChange={selectMethod}
selectMethod(m) ==
    /\ method' = m
    /\ currentStep' = -1
    /\ isPlaying' = FALSE
    /\ UNCHANGED <<selectedCorridor, amount, chargeBearer>>
    /\ Render(selectedCorridor, m, FALSE)
    /\ Record("selectMethod", m, -1, FALSE)

\* The Next button: onClick={nextStep} disabled={isComplete}
nextStep ==
    /\ ~isComplete
    /\ currentStep' = NextStepCursor(currentStep, n)
    /\ isPlaying' = NextStepPlaying(currentStep, n, isPlaying)
    /\ UNCHANGED <<selectedCorridor, amount, chargeBearer, method>>
    /\ Render(selectedCorridor, method, isPlaying')
    /\ Record("nextStep", "", -1, TRUE)

\* The Prev button: onClick={prevStep} disabled={currentStep <= -1}
prevStep ==
    /\ ~(currentStep <= -1)
    /\ currentStep' = PrevStepCursor(currentStep)
    /\ UNCHANGED <<selectedCorridor, amount, chargeBearer, method, isPlaying>>
    /\ Render(selectedCorridor, method, isPlaying)
    /\ Record("prevStep", "", -1, FALSE)

\* reset without its setIsPlaying(false).
resetKeepsPlaying ==
    /\ currentStep # -1
    /\ currentStep' = -1
    /\ UNCHANGED <<selectedCorridor, amount, chargeBearer, method, isPlaying>>
    /\ Render(selectedCorridor, method, isPlaying)
    /\ Record("reset", "", -1, FALSE)

\* The reset icon: onClick={reset} disabled={currentStep === -1}
reset ==
    /\ currentStep # -1
    /\ currentStep' = -1
    /\ isPlaying' = FALSE
    /\ UNCHANGED <<selectedCorridor, amount, chargeBearer, method>>
    /\ Render(selectedCorridor, method, FALSE)
    /\ Record("reset", "", -1, FALSE)

\* The Start / Pause / Play / Replay button: onClick={togglePlay}
togglePlay ==
    /\ currentStep' = TogglePlayCursor(currentStep, n)
    /\ isPlaying' = TogglePlayPlaying(currentStep, n, isPlaying)
    /\ UNCHANGED <<selectedCorridor, amount, chargeBearer, method>>
    /\ Render(selectedCorridor, method, isPlaying')
    /\ Record("togglePlay", "", -1, FALSE)

\* The step dot without its setIsPlaying(false).
jumpToKeepsPlaying(i) ==
    /\ currentStep' = i
    /\ UNCHANGED <<selectedCorridor, amount, chargeBearer, method, isPlaying>>
    /\ Render(selectedCorridor, method, isPlaying)
    /\ Record("jumpTo", "", i, FALSE)

\* A step dot: onClick={() => { setCurrentStep(i); setIsPlaying(false); }}
jumpTo(i) ==
    /\ currentStep' = i
    /\ isPlaying' = FALSE
    /\ UNCHANGED <<selectedCorridor, amount, chargeBearer, method>>
    /\ Render(selectedCorridor, method, FALSE)
    /\ Record("jumpTo", "", i, FALSE)

\* NumberInput onChange={(v) => setAmount(typeof v === 'number' ? v : corridor.defaultAmount)}
changeAmount(v) ==
    /\ amount' = IF v.isNumber THEN v.value
                  ELSE FindCorridor(selectedCorridor).defaultAmount
    /\ UNCHANGED <<selectedCorridor, currentStep, isPlaying, chargeBearer, method>>
    /\ Render(selectedCorridor, method, isPlaying)
    /\ Record("changeAmount", IF v.isNumber THEN "number" ELSE "string", v.value, FALSE)

\* SegmentedControl onChange={(v) => setChargeBearer(v as ChargeBearer)}
changeChargeBearer(v) ==
    /\ chargeBearer' = v
    /\ UNCHANGED <<selectedCorridor, amount, currentStep, isPlaying, method>>
    /\ Render(selectedCorridor, method, isPlaying)
    /\ Record("changeChargeBearer", v, -1, FALSE)

\* One firing of a live interval: if (isPlayingRef.current) nextStep(), where
\* nextStep is the function the timer captured (over t.steps).
Tick(t) ==
    LET len == Len(StepsOf(t.steps[1], t.steps[2]))
        call == TimerCallsNext(isPlayingRef)
    IN  /\ currentStep' = IF call THEN NextStepCursor(currentStep, len) ELSE currentStep
        /\ isPlaying' = IF call THEN NextStepPlaying(currentStep, len, isPlaying)
                        ELSE isPlaying
        /\ UNCHANGED <<selectedCorridor, amount, chargeBearer, method>>
        /\ Render(selectedCorridor, method, isPlaying')
        /\ Record("tick", "", t.id, call)

Next ==
    \/ \E id \in CorridorIds : selectCorridor(id)
    \/ \E m \in SettlementMethod : selectMethod(m)
    \/ nextStep
    \/ prevStep
    \/ reset
    \/ togglePlay
    \/ \E i \in 0..(n - 1) : jumpTo(i)
    \/ \E v \in InputValues : changeAmount(v)
    \/ \E v \in ChargeBearer : changeChargeBearer(v)
    \/ \E t \in intervals : Tick(t)

Spec == Init /\ [][Next]_vars

----------------------------------------------------------------------------
(* Autoplay left alone                                                      *)

\* The user stops operating the controls; from then on only the interval fires.
WalkAway ==
    /\ ~idle
    /\ idle' = TRUE
    /\ UNCHANGED <<selectedCorridor, amount, currentStep, isPlaying, chargeBearer,
                   method, isPlayingRef, intervals, intervalId, lastOp, pre,
                   nextOnly, sim>>

NextAutoplay ==
    \/ ~idle /\ Next
    \/ WalkAway
    \/ idle /\ \E t \in intervals : Tick(t)

\* setInterval(..., 2500) keeps firing its callback while the timer is alive.
SpecAutoplay ==
    Init /\ [][NextAutoplay]_vars /\ WF_vars(\E t \in intervals : Tick(t))

----------------------------------------------------------------------------
(* The pure functions applied to drawn arguments                            *)

\* One call of simulateCorridor, and of StatsSummary under each charge bearer,
\* on the same corridor, step sequence and amount; chargeBearer is the
\* session's policy at the time of the call.
Simulate(c, m, feeless, a) ==
    /\ sim' = [ran |-> TRUE, corridor |-> c, method |-> m, feeless |-> feeless,
               amount |-> a, chargeBearer |-> chargeBearer,
               steps |-> SimSteps(c, m, feeless),
               derived |-> simulateCorridor(FindCorridor(c), SimSteps(c, m, feeless), a),
               stepsAfter |-> StepsAfter(SimSteps(c, m, feeless)),
               corridorAfter |-> CorridorAfter(FindCorridor(c)),
               summary |-> [cb \in ChargeBearer |->
                               StatsSummary(FindCorridor(c), SimSteps(c, m, feeless), a, cb)]]
    /\ UNCHANGED appVars

NextSim ==
    \/ \E c \in CorridorIds, m \in SettlementMethod, feeless \in BOOLEAN, a \in SimAmounts :
           Simulate(c, m, feeless, a)
    \/ \E v \in ChargeBearer : changeChargeBearer(v)

SpecSim == Init /\ [][NextSim]_vars

----------------------------------------------------------------------------
(* The handlers called with selectors outside the closed UI sets            *)

\* Strings that are no corridor id, no SettlementMethod and no ChargeBearer:
\* selectCorridor(id: string), selectMethod(m: string) and the charge-bearer
\* onChange take any string (`m as SettlementMethod`, `v as ChargeBearer`).
UnknownCorridorIds == {"eur-brl"}
UnknownMethods == {"instant"}
UnknownChargeBearers == {"DEBT"}

\* The App is mounted: an unknown selectedCorridor makes `corridor` undefined
\* and the render throws, which unmounts the tree.
Mounted == selectedCorridor \in CorridorIds

\* selectCorridor(id) for an id CORRIDORS.find does not find: c is undefined,
\* setSelectedCorridor(id) is queued, then c.defaultAmount throws a TypeError
\* before setAmount, setCurrentStep and setIsPlaying.  The queued update is
\* committed, the render throws on corridor.serialSteps and the unmount runs
\* the effect's cleanup.
selectCorridorNotFound(id) ==
    /\ id \notin CorridorIds
    /\ selectedCorridor' = id
    /\ UNCHANGED <<amount, currentStep, isPlaying, chargeBearer, method,
                   isPlayingRef, intervalId>>
    /\ intervals' = ClearInterval(intervals, intervalId)
    /\ Record("selectCorridor", id, -1, FALSE)

NextDefensive ==
    \/ Mounted /\ Next
    \/ Mounted /\ \E id \in UnknownCorridorIds : selectCorridorNotFound(id)
    \/ Mounted /\ \E m \in UnknownMethods : selectMethod(m)
    \/ Mounted /\ \E v \in UnknownChargeBearers : changeChargeBearer(v)

SpecDefensive == Init /\ [][NextDefensive]_vars

----------------------------------------------------------------------------
(* Properties                                                               *)

\* What the handler that ran last left alone.
SelectionUnchanged ==
    /\ selectedCorridor = pre.selectedCorridor
    /\ method = pre.method
    /\ chargeBearer = pre.chargeBearer
    /\ amount = pre.amount

\* C1: in every reachable state the cursor lies in {-1, 0, ..., n-1}, n being
\* the length of the active step sequence.
C1_CursorInRange == currentStep \in (-1)..(n - 1)

\* A method switch from the last cover step (index 7) to the 6-step serial sequence.
C1_Witness ==
    /\ lastOp.name = "selectMethod"
    /\ pre.currentStep = pre.n - 1
    /\ pre.n > n
    /\ currentStep = -1

\* C2: next() below the last step increments the cursor by exactly 1 and leaves
\* isPlaying alone; at the last step it leaves the cursor and sets isPlaying false.
C2_NextStep ==
    lastOp.calledNext =>
        /\ pre.currentStep < pre.n - 1 =>
               currentStep = pre.currentStep + 1 /\ isPlaying = pre.isPlaying
        /\ pre.currentStep = pre.n - 1 =>
               currentStep = pre.currentStep /\ isPlaying = FALSE

\* next() ran at the last step while playing.
C2_Witness ==
    /\ lastOp.calledNext
    /\ pre.currentStep = pre.n - 1
    /\ pre.isPlaying
    /\ currentStep = pre.n - 1

\* C3: togglePlay() at the terminal step sets cursor = 0 and isPlaying = true
\* whatever isPlaying was; otherwise it negates isPlaying and moves the cursor
\* only from -1 to 0.
C3_TogglePlay ==
    lastOp.name = "togglePlay" =>
        IF pre.currentStep >= pre.n - 1
        THEN currentStep = 0 /\ isPlaying = TRUE
        ELSE /\ isPlaying = ~pre.isPlaying
             /\ currentStep = (IF pre.currentStep = -1 THEN 0 ELSE pre.currentStep)

\* togglePlay at the terminal step while still playing.
C3_Witness ==
    /\ lastOp.name = "togglePlay"
    /\ pre.currentStep >= pre.n - 1
    /\ pre.isPlaying
    /\ isPlaying
    /\ currentStep = 0

\* C4: a timer tick invokes next() exactly once when isPlaying is true and
\* changes nothing when it is false; togglePlay neither creates nor restarts a
\* timer and exactly one timer is alive, so no tick advances more than once.
C4_Autoplay ==
    /\ Cardinality(intervals) = 1
    /\ lastOp.name = "togglePlay" => intervals = pre.intervals
    /\ lastOp.name = "tick" =>
           /\ lastOp.calledNext = pre.isPlaying
           /\ pre.isPlaying =>
                  currentStep = (IF pre.currentStep < pre.n - 1
                                 THEN pre.currentStep + 1 ELSE pre.currentStep)
           /\ ~pre.isPlaying =>
                  currentStep = pre.currentStep /\ isPlaying = pre.isPlaying

\* A tick while paused in the middle of the sequence.
C4_Witness ==
    /\ lastOp.name = "tick"
    /\ ~pre.isPlaying
    /\ pre.currentStep > 0
    /\ pre.currentStep < pre.n - 1
    /\ currentStep = pre.currentStep

\* C5: select(corridorId) and select(method) set cursor = -1 and
\* isPlaying = false and make the steps of the new selection the active
\* sequence, for the view and for the timer's nextStep.
C5_Select ==
    /\ lastOp.name = "selectCorridor" =>
           /\ currentStep = -1 /\ isPlaying = FALSE
           /\ selectedCorridor = lastOp.sel /\ method = pre.method
           /\ steps = StepsOf(lastOp.sel, pre.method)
           /\ \A t \in intervals : t.steps = <<lastOp.sel, pre.method>>
    /\ lastOp.name = "selectMethod" =>
           /\ currentStep = -1 /\ isPlaying = FALSE
           /\ selectedCorridor = pre.selectedCorridor /\ method = lastOp.sel
           /\ steps = StepsOf(pre.selectedCorridor, lastOp.sel)
           /\ \A t \in intervals : t.steps = <<pre.selectedCorridor, lastOp.sel>>

\* A method switch in the middle of a running playback.
C5_Witness ==
    /\ lastOp.name = "selectMethod"
    /\ pre.isPlaying
    /\ pre.currentStep > 0
    /\ pre.method # method

\* C6: the amount is reset to the corridor's defaultAmount only when the
\* corridor actually changes: re-selecting the selected corridor keeps an
\* edited amount, and select(method) always keeps the amount.
C6_AmountResetOnlyOnChange ==
    /\ (lastOp.name = "selectCorridor" /\ lastOp.sel = pre.selectedCorridor) =>
           amount = pre.amount
    /\ (lastOp.name = "selectCorridor" /\ lastOp.sel # pre.selectedCorridor) =>
           amount = FindCorridor(lastOp.sel).defaultAmount
    /\ lastOp.name = "selectMethod" => amount = pre.amount

\* C7 as claimed: from cursor = -1, over next() calls only, the cursor never
\* decreases and a next() at cursor = n-1 changes nothing, isPlaying included.
C7_NextIsNoOpAtEnd ==
    (nextOnly /\ lastOp.calledNext) =>
        /\ currentStep >= pre.currentStep
        /\ pre.currentStep = pre.n - 1 =>
               /\ currentStep = pre.currentStep
               /\ isPlaying = pre.isPlaying
               /\ SelectionUnchanged

\* C7 amended: from cursor = -1, over next() calls only, the cursor never
\* decreases, and a next() at cursor = n-1 leaves the cursor, the selection,
\* the charge bearer and the amount unchanged and leaves isPlaying false.
C7_NextMonotone ==
    (nextOnly /\ lastOp.calledNext) =>
        /\ currentStep >= pre.currentStep
        /\ pre.currentStep = pre.n - 1 =>
               /\ currentStep = pre.currentStep
               /\ isPlaying = FALSE
               /\ SelectionUnchanged

\* From cursor = -1 with playback on, next() calls alone reached the last
\* step and one more next() ran there.
C7_Witness ==
    /\ nextOnly
    /\ lastOp.calledNext
    /\ pre.currentStep = pre.n - 1
    /\ pre.isPlaying
    /\ ~isPlaying

\* C8: reset() yields cursor = -1 and isPlaying = false and leaves corridor,
\* method, charge bearer and amount unchanged.
C8_Reset ==
    lastOp.name = "reset" =>
        /\ currentStep = -1
        /\ isPlaying = FALSE
        /\ SelectionUnchanged

\* reset during playback, with an edited amount and a non-default charge bearer.
C8_Witness ==
    /\ lastOp.name = "reset"
    /\ pre.isPlaying
    /\ pre.currentStep > 0
    /\ pre.amount \in AmountInputs
    /\ pre.chargeBearer = "OUR"
    /\ pre.method = "cover"

\* C9: prev() sets the cursor to max(-1, cursor - 1) and never changes isPlaying.
C9_PrevStep ==
    /\ PrevStepCursor(-1) = -1
    /\ lastOp.name = "prevStep" =>
           /\ pre.currentStep >= 0 => currentStep = pre.currentStep - 1
           /\ pre.currentStep = -1 => currentStep = -1
           /\ isPlaying = pre.isPlaying

\* prev() from the first step while playing: the cursor returns to -1.
C9_Witness ==
    /\ lastOp.name = "prevStep"
    /\ pre.currentStep = 0
    /\ currentStep = -1
    /\ isPlaying

\* C10: jumpTo(i) sets cursor = i and isPlaying = false whatever they were.
C10_JumpTo ==
    lastOp.name = "jumpTo" =>
        /\ currentStep = lastOp.num
        /\ isPlaying = FALSE

\* A jump backwards during playback.
C10_Witness ==
    /\ lastOp.name = "jumpTo"
    /\ pre.isPlaying
    /\ lastOp.num < pre.currentStep
    /\ currentStep = lastOp.num

\* C11: selecting an unknown corridor id, method or charge bearer is rejected
\* and leaves corridor, method, charge bearer, amount, cursor and isPlaying
\* unchanged; no unknown selector is accepted or mapped to a default.
C11_UnknownSelectorRejected ==
    /\ selectedCorridor \in CorridorIds
    /\ method \in SettlementMethod
    /\ chargeBearer \in ChargeBearer
    /\ (\/ lastOp.name = "selectCorridor" /\ lastOp.sel \notin CorridorIds
        \/ lastOp.name = "selectMethod" /\ lastOp.sel \notin SettlementMethod
        \/ lastOp.name = "changeChargeBearer" /\ lastOp.sel \notin ChargeBearer) =>
           /\ SelectionUnchanged
           /\ currentStep = pre.currentStep
           /\ isPlaying = pre.isPlaying

\* C12 as claimed: a principal <= 0 is rejected, the simulator producing no
\* derived steps for it.
C12_NonPositiveAmountRejected ==
    (sim.ran /\ sim.amount <= 0) => sim.derived = <<>>

\* The (senderOutlay, beneficiaryReceived) pair of the last call under a policy.
Pair(cb) == <<sim.summary[cb].senderPays, sim.summary[cb].received>>

\* The sum of fee over the forward steps of a sequence.
RECURSIVE TotalForwardFees(_)
TotalForwardFees(stps) ==
    IF stps = <<>> THEN 0
    ELSE (IF stps[1].direction = "forward" THEN stps[1].fee ELSE 0)
             + TotalForwardFees(Tail(stps))

\* C13: for one sequence and principal, SHA, OUR and BEN give three pairwise
\* different (senderOutlay, beneficiaryReceived) pairs when totalFees > 0 and
\* the same pair when totalFees = 0.
C13_ChargeBearerDivergence ==
    sim.ran =>
        /\ TotalForwardFees(sim.steps) > 0 =>
               /\ Pair("SHA") # Pair("OUR")
               /\ Pair("SHA") # Pair("BEN")
               /\ Pair("OUR") # Pair("BEN")
        /\ TotalForwardFees(sim.steps) = 0 =>
               /\ Pair("SHA") = Pair("OUR")
               /\ Pair("OUR") = Pair("BEN")

\* The three policies on a fee-bearing sequence: SHA and BEN cost the sender
\* the same but deliver different amounts.
C13_Witness ==
    /\ sim.ran
    /\ TotalForwardFees(sim.steps) > 0
    /\ sim.amount = 50000
    /\ sim.summary["SHA"].senderPays = sim.summary["BEN"].senderPays
    /\ sim.summary["SHA"].received # sim.summary["BEN"].received

\* x - i for a decimal x and an integer i.
Minus(x, i) == Canon([num |-> x.num - i * x.den, den |-> x.den])

\* C14 as claimed: under BEN the sender outlay is the principal and the
\* beneficiary receives the converted principal minus the total forward fees,
\* subtracted after the FX conversion.
C14_BenFeesAfterFx ==
    sim.ran =>
        /\ sim.summary["BEN"].senderPays = sim.amount
        /\ sim.summary["BEN"].received =
               Minus(Times(sim.amount, FindCorridor(sim.corridor).fxRate),
                     TotalForwardFees(sim.steps))

\* C14 amended: under BEN the sender outlay is the principal and the
\* beneficiary receives (principal - total forward fees) converted at the
\* corridor's fxRate: the fees are one lump subtracted before the conversion.
C14_BenFeesBeforeFx ==
    sim.ran =>
        /\ sim.summary["BEN"].senderPays = sim.amount
        /\ sim.summary["BEN"].received =
               Times(sim.amount - TotalForwardFees(sim.steps),
                     FindCorridor(sim.corridor).fxRate)

\* BEN on SGD -> GBP, 50000: (50000 - 75) * 0.5812 = 29016.41.
C14_Witness ==
    /\ sim.ran
    /\ sim.corridor = "sgd-gbp"
    /\ ~sim.feeless
    /\ sim.amount = 50000
    /\ sim.summary["BEN"].received = [num |-> 2901641, den |-> 100]

\* x converted by every forward FX step of a sequence, in order.
RECURSIVE ConvertBySteps(_, _)
ConvertBySteps(stps, x) ==
    IF stps = <<>> THEN x
    ELSE ConvertBySteps(Tail(stps),
             IF stps[1].direction = "forward" /\ Truthy(stps[1].fxRate)
             THEN Canon([num |-> x.num * stps[1].fxRate.num,
                         den |-> x.den * stps[1].fxRate.den])
             ELSE x)

\* C15: under OUR the sender outlay is principal + totalFees and the
\* beneficiary receives the principal converted by the sequence's FX steps,
\* no fee deducted.
C15_OurFullConversion ==
    sim.ran =>
        /\ sim.summary["OUR"].senderPays = sim.amount + TotalForwardFees(sim.steps)
        /\ sim.summary["OUR"].received = ConvertBySteps(sim.steps, Num(sim.amount))

\* The index of the last forward step of a sequence (0 if there is none).
LastForward(stps) ==
    IF \E i \in 1..Len(stps) : stps[i].direction = "forward"
    THEN CHOOSE i \in 1..Len(stps) :
             /\ stps[i].direction = "forward"
             /\ \A j \in (i + 1)..Len(stps) : stps[j].direction # "forward"
    ELSE 0

\* C16: under SHA the summary's beneficiaryReceived equals the amountAfter of
\* the last forward step of the per-step simulation of the same sequence and
\* principal.
C16_ShaMatchesPerStep ==
    sim.ran =>
        sim.summary["SHA"].received = sim.derived[LastForward(sim.steps)].amountAfter

\* A step at which an FX conversion happens.
IsFx(d) == Truthy(d.step.fxRate)

RECURSIVE LatestFxTo(_, _)
LatestFxTo(derived, i) ==
    IF i = 0 THEN ""
    ELSE IF IsFx(derived[i]) /\ derived[i].step.direction = "forward"
         THEN derived[i].step.fxTo
         ELSE LatestFxTo(derived, i - 1)

\* C18: a forward step with fxRate r has amountAfter = (amountBefore - fee) * r,
\* and the conversion persists: every later step starts from the running
\* converted amount and runs in the fxTo of the most recent FX step.
C18_ConversionPersists ==
    sim.ran =>
        \A i \in 1..Len(sim.derived) :
            LET d == sim.derived[i]
            IN  /\ (d.step.direction = "forward" /\ IsFx(d)) =>
                       d.amountAfter = Times(d.amountBefore.num - d.step.fee, d.step.fxRate)
                /\ (i > 1 /\ LatestFxTo(sim.derived, i - 1) # "") =>
                       /\ d.amountBefore = sim.derived[i - 1].amountAfter
                       /\ d.runningCurrency = LatestFxTo(sim.derived, i)

\* C19: every backward step, and every forward step with neither fee nor FX,
\* has amountAfter = amountBefore, equal to the amountAfter of the step before it.
C19_PassThroughSteps ==
    sim.ran =>
        \A i \in 1..Len(sim.derived) :
            LET d == sim.derived[i]
            IN  (\/ d.step.direction = "backward"
                 \/ d.step.direction = "forward" /\ d.step.fee = 0 /\ ~IsFx(d)) =>
                    /\ d.amountAfter = d.amountBefore
                    /\ i > 1 => d.amountAfter = sim.derived[i - 1].amountAfter

\* The call of the SGD -> GBP scenario: serial method, principal 50000.
SgdGbpScenario ==
    /\ sim.ran
    /\ sim.corridor = "sgd-gbp" /\ sim.method = "serial" /\ ~sim.feeless
    /\ sim.amount = 50000

\* C20 as claimed: step 1 leaves 49965 SGD; step 2 has 49940 after its fee of
\* 25 and amountAfter = 29015.13 GBP at rate 0.5812.
C20_ScenarioAsClaimed ==
    SgdGbpScenario =>
        /\ sim.derived[1].amountAfter = Num(49965)
        /\ sim.derived[1].runningCurrency = "SGD"
        /\ sim.derived[2].amountBefore.num - sim.derived[2].step.fee = 49940
        /\ sim.derived[2].step.fxRate = Rate(5812, 10000)
        /\ sim.derived[2].amountAfter = [num |-> 2901513, den |-> 100]
        /\ sim.derived[2].runningCurrency = "GBP"

\* C20 amended: step 1 leaves 49965 SGD; step 2 has 49940 after its fee of 25
\* and amountAfter = 49940 * 0.5812 = 29025.128 GBP.
C20_Scenario ==
    SgdGbpScenario =>
        /\ sim.derived[1].amountAfter = Num(49965)
        /\ sim.derived[1].runningCurrency = "SGD"
        /\ sim.derived[2].amountBefore.num - sim.derived[2].step.fee = 49940
        /\ sim.derived[2].step.fxRate = Rate(5812, 10000)
        /\ sim.derived[2].amountAfter = [num |-> 29025128, den |-> 1000]
        /\ sim.derived[2].runningCurrency = "GBP"

\* The scenario was simulated and step 2 converted into GBP.
C20_Witness ==
    /\ SgdGbpScenario
    /\ sim.derived[2].step.fee = 25
    /\ sim.derived[2].amountBefore = Num(49965)
    /\ sim.derived[2].runningCurrency = "GBP"

\* The amount a derived step ends with, from the step sequence and the
\* principal alone: the principal less the forward fees up to the step,
\* converted when the step carries a rate.
AmountAfterOf(stps, amt, i) ==
    LET left == amt - TotalForwardFees(SubSeq(stps, 1, i))
    IN  IF ~Truthy(stps[i].fxRate) THEN Num(left)
        ELSE IF stps[i].direction = "forward" THEN Times(left, stps[i].fxRate)
        ELSE Undefined

\* C21: the simulator returns one derived step per input step in the same
\* order, each carrying every field of its source step unchanged (the message
\* template included) plus amountBefore, amountAfter and runningCurrency; the
\* input steps and the corridor are not modified; and the per-step output is
\* determined by the steps and the principal, whatever the charge bearer.
C21_DerivedSteps ==
    sim.ran =>
        /\ Len(sim.derived) = Len(sim.steps)
        /\ \A i \in 1..Len(sim.steps) :
               LET d == sim.derived[i]
               IN  /\ DOMAIN d = {"step", "amountBefore", "amountAfter", "runningCurrency"}
                   /\ d.step = sim.steps[i]
                   /\ d.step.xmlSnippet = <<sim.corridor, sim.method, i>>
                   /\ d.amountBefore =
                          Num(sim.amount - TotalForwardFees(SubSeq(sim.steps, 1, i - 1)))
                   /\ d.amountAfter = AmountAfterOf(sim.steps, sim.amount, i)
                   /\ d.runningCurrency =
                          (IF sim.steps[i].fxTo # "" THEN sim.steps[i].fxTo
                           ELSE FindCorridor(sim.corridor).sourceCurrency)
        /\ sim.stepsAfter = SimSteps(sim.corridor, sim.method, sim.feeless)
        /\ sim.steps = sim.stepsAfter
        /\ sim.corridorAfter = FindCorridor(sim.corridor)

\* A cover sequence simulated while the session's charge bearer is OUR: the
\* per-step amounts still deduct the fees the OUR summary does not.
C21_Witness ==
    /\ sim.ran
    /\ sim.chargeBearer = "OUR"
    /\ sim.method = "cover" /\ ~sim.feeless /\ sim.amount = 7500
    /\ Len(sim.derived) = 8
    /\ sim.derived[8].step.xmlSnippet = <<sim.corridor, "cover", 8>>
    /\ sim.derived[8].amountAfter # Num(sim.summary["OUR"].amountAfterDeductions)

\* The index of the bank with a role among a corridor's banks (0-based, as
\* from / to are).
BankIndex(corridor, role) ==
    (CHOOSE k \in 1..Len(corridor.banks) : corridor.banks[k] = role) - 1

\* The forward steps of a sequence, in order.
Forward(stps) == SelectSeq(stps, LAMBDA st : st.direction = "forward")

\* The loop-closing conditions on one sequence of a corridor.
WellFormed(corridor, stps) ==
    /\ \A i \in 1..Len(stps) : stps[i].id = i
    /\ \A i \in 1..Len(stps) :
           /\ stps[i].from \in 0..(Len(corridor.banks) - 1)
           /\ stps[i].to \in 0..(Len(corridor.banks) - 1)
    /\ Forward(stps) # <<>>
    /\ Forward(stps)[1].from = BankIndex(corridor, "originator")
    /\ \E i \in 1..Len(stps) :
           /\ stps[i].direction = "backward"
           /\ stps[i].to = BankIndex(corridor, "originator")

\* C22: for every corridor and both sequences, the step ids are 1, 2, ..., n in
\* order, every from and to is an index into the corridor's banks, the first
\* forward step starts at the originator bank and some backward step ends
\* there; so it is for the sequence being played.
C22_SequencesWellFormed ==
    /\ \A k \in 1..Len(CORRIDORS) :
           /\ WellFormed(CORRIDORS[k], CORRIDORS[k].serialSteps)
           /\ WellFormed(CORRIDORS[k], CORRIDORS[k].coverSteps)
    /\ WellFormed(FindCorridor(selectedCorridor), steps)

\* The last corridor's cover sequence played to its final step, a backward
\* step that ends at the originator.
C22_Witness ==
    /\ selectedCorridor = CORRIDORS[Len(CORRIDORS)].id
    /\ method = "cover"
    /\ currentStep = n - 1
    /\ steps[currentStep + 1].direction = "backward"
    /\ steps[currentStep + 1].to = 0
    /\ steps[currentStep + 1].id = 8

\* C23: switching the method from serial to cover on the same corridor makes
\* coverSteps.length the active step count n, and every corridor's coverSteps
\* are strictly more than its serialSteps.
C23_CoverIsLonger ==
    /\ \A k \in 1..Len(CORRIDORS) :
           Len(CORRIDORS[k].coverSteps) > Len(CORRIDORS[k].serialSteps)
    /\ (lastOp.name = "selectMethod" /\ lastOp.sel = "cover" /\ pre.method = "serial") =>
           /\ selectedCorridor = pre.selectedCorridor
           /\ n = Len(FindCorridor(selectedCorridor).coverSteps)
           /\ pre.n = Len(FindCorridor(selectedCorridor).serialSteps)
           /\ n > pre.n

\* A switch from serial to cover at the last serial step: n goes from 6 to 8.
C23_Witness ==
    /\ lastOp.name = "selectMethod" /\ lastOp.sel = "cover"
    /\ pre.method = "serial"
    /\ pre.currentStep = pre.n - 1
    /\ pre.n = 6
    /\ n = 8

\* The <<from, to>> of each step of a sequence.
Hops(stps) == [i \in 1..Len(stps) |-> <<stps[i].from, stps[i].to>>]

\* The hops 0 -> 1, 1 -> 2, ..., last-1 -> last.
Chain(last) == [i \in 1..last |-> <<i - 1, i>>]

\* C24: every sequence conforms to its topology: the forward steps of
\* serialSteps are exactly the hops i -> i+1 for i = 0 .. last-1 in index
\* order; coverSteps have exactly one forward step from the originator
\* directly to the beneficiary, their other forward steps being the hops
\* i -> i+1 through every intermediary; both end with a backward step to 0.
C24_Topology ==
    /\ \A k \in 1..Len(CORRIDORS) :
           LET c == CORRIDORS[k]
               last == Len(c.banks) - 1
               direct == <<BankIndex(c, "originator"), BankIndex(c, "beneficiary")>>
               cover == Hops(Forward(c.coverSteps))
           IN  /\ Hops(Forward(c.serialSteps)) = Chain(last)
               /\ Cardinality({i \in 1..Len(cover) : cover[i] = direct}) = 1
               /\ SelectSeq(cover, LAMBDA h : h # direct) = Chain(last)
               /\ direct = <<0, last>>
               /\ c.serialSteps[Len(c.serialSteps)].direction = "backward"
               /\ c.serialSteps[Len(c.serialSteps)].to = 0
               /\ c.coverSteps[Len(c.coverSteps)].direction = "backward"
               /\ c.coverSteps[Len(c.coverSteps)].to = 0
    /\ steps[n].direction = "backward" /\ steps[n].to = 0
    /\ (method = "serial" /\ currentStep >= 0 /\ steps[currentStep + 1].direction = "forward") =>
           steps[currentStep + 1].to = steps[currentStep + 1].from + 1

\* A cover sequence at its direct step from the originator to the beneficiary bank.
C24_Witness ==
    /\ method = "cover"
    /\ currentStep = 0
    /\ steps[1].direction = "forward"
    /\ steps[1].from = 0 /\ steps[1].to = 3
    /\ steps[2].from = 0 /\ steps[2].to = 1

\* C25: after select(corridorId) or select(method) no timer created under the
\* previous selection is alive; every tick is evaluated against the length of
\* the active sequence and the current isPlaying, so it never moves the
\* cursor past n-1 and does not move it while isPlaying is false.
C25_NoStaleTimer ==
    /\ \A t \in intervals : t.steps = <<selectedCorridor, method>>
    /\ isPlayingRef = isPlaying
    /\ lastOp.name \in {"selectCorridor", "selectMethod"} =>
           /\ ~isPlaying
           /\ \A t \in pre.intervals :
                  t.steps # <<selectedCorridor, method>> => t \notin intervals
    /\ lastOp.name = "tick" =>
           /\ \E t \in pre.intervals :
                  /\ t.id = lastOp.num
                  /\ t.steps = <<pre.selectedCorridor, pre.method>>
           /\ lastOp.calledNext = pre.isPlaying
           /\ currentStep <= n - 1
           /\ currentStep =
                  (IF pre.isPlaying /\ pre.currentStep < n - 1
                   THEN pre.currentStep + 1 ELSE pre.currentStep)
           /\ ~pre.isPlaying => currentStep = pre.currentStep /\ ~isPlaying

\* After a change of corridor and a switch to cover, playback was started
\* again and a tick advanced the cursor beyond the length of the first
\* selection's serial sequence.
C25_Witness ==
    /\ lastOp.name = "tick"
    /\ selectedCorridor # CORRIDORS[1].id
    /\ method = "cover"
    /\ pre.isPlaying
    /\ pre.currentStep = Len(CORRIDORS[1].serialSteps) - 1
    /\ currentStep = pre.currentStep + 1

\* The sequence is complete and playback is off.
Terminated == currentStep = n - 1 /\ ~isPlaying

\* C26: autoplay terminates: once the user leaves a state with playback on
\* to the timer, the cursor eventually is n-1 with isPlaying false, and from
\* then on the ticks change neither the cursor nor isPlaying.
C26_AutoplayTerminates ==
    /\ (idle /\ isPlaying) ~> (idle /\ Terminated)
    /\ [][(idle /\ Terminated) => (idle /\ Terminated)']_vars

\* Left to the timer, playback reached the last step and a further tick
\* turned it off.
C26_Witness ==
    /\ idle
    /\ lastOp.name = "tick" /\ lastOp.calledNext
    /\ pre.isPlaying /\ pre.currentStep = pre.n - 1
    /\ Terminated

\* C27 as claimed: in every reachable state isPlaying implies cursor >= 0.
C27_PlayingImpliesStarted == isPlaying => currentStep >= 0

\* C27 amended: isPlaying implies cursor >= 0 except after prev() from step 0
\* during playback, which leaves cursor = -1 with isPlaying true; no other
\* operation enters that state, only an edit of the amount or of the charge
\* bearer keeps it, and togglePlay never leaves it behind.
C27_PlayingUnstartedOnlyByPrev ==
    /\ (isPlaying /\ currentStep = -1) =>
           \/ lastOp.name = "prevStep" /\ pre.currentStep = 0 /\ pre.isPlaying
           \/ /\ lastOp.name \in {"changeAmount", "changeChargeBearer"}
              /\ pre.isPlaying /\ pre.currentStep = -1
    /\ (lastOp.name = "togglePlay" /\ isPlaying) => currentStep >= 0
    /\ (lastOp.name = "tick" /\ isPlaying) => currentStep >= 0

\* togglePlay from the not-started state: playback runs at step 0.
C27_Witness ==
    /\ lastOp.name = "togglePlay"
    /\ pre.currentStep = -1
    /\ isPlaying
    /\ currentStep = 0

\* The fee of the first fee-bearing forward step of a sequence (0 if none).
RECURSIVE FirstForwardFee(_)
FirstForwardFee(stps) ==
    IF stps = <<>> THEN 0
    ELSE IF stps[1].direction = "forward" /\ stps[1].fee # 0 THEN stps[1].fee
    ELSE FirstForwardFee(Tail(stps))

\* C28: under every charge bearer senderFee + deductedFromTransfer = totalFees,
\* senderFee being totalFees under OUR, 0 under BEN and the fee of the first
\* fee-bearing forward step under SHA; only under OUR is the sender fee added
\* to what the sender pays.
C28_FeeSplit ==
    sim.ran =>
        /\ \A cb \in ChargeBearer :
               /\ sim.summary[cb].totalFees = TotalForwardFees(sim.steps)
               /\ sim.summary[cb].senderFee + sim.summary[cb].deductedFromTransfer
                      = sim.summary[cb].totalFees
        /\ sim.summary["OUR"].senderFee = TotalForwardFees(sim.steps)
        /\ sim.summary["BEN"].senderFee = 0
        /\ sim.summary["SHA"].senderFee = FirstForwardFee(sim.steps)
        /\ sim.summary["OUR"].senderPays = sim.amount + sim.summary["OUR"].senderFee
        /\ sim.summary["SHA"].senderPays = sim.amount
        /\ sim.summary["BEN"].senderPays = sim.amount

\* SHA on AED -> PHP: the sender's fee is 25 of the 53, it is not added to
\* the amount sent, and the other 28 are deducted from the transfer.
C28_Witness ==
    /\ sim.ran
    /\ sim.corridor = "aed-php" /\ ~sim.feeless /\ sim.amount = 1000
    /\ sim.summary["SHA"].senderFee = 25
    /\ sim.summary["SHA"].deductedFromTransfer = 28
    /\ sim.summary["SHA"].senderPays = 1000
    /\ sim.summary["OUR"].senderPays = 1053

\* The other settlement method.
OtherMethod(m) == IF m = "serial" THEN "cover" ELSE "serial"

\* C29: for every corridor the summary does not depend on the settlement
\* method: serialSteps and coverSteps have the same sum of forward fees and
\* the same first fee-bearing forward fee, so (senderPays,
\* deductedFromTransfer, received) is the same for serial and cover.
C29_MethodIndependentSummary ==
    sim.ran =>
        LET other == SimSteps(sim.corridor, OtherMethod(sim.method), sim.feeless)
        IN  /\ TotalForwardFees(sim.steps) = TotalForwardFees(other)
            /\ FirstForwardFee(sim.steps) = FirstForwardFee(other)
            /\ \A cb \in ChargeBearer :
                   LET there == StatsSummary(FindCorridor(sim.corridor), other, sim.amount, cb)
                   IN  /\ sim.summary[cb].senderPays = there.senderPays
                       /\ sim.summary[cb].deductedFromTransfer = there.deductedFromTransfer
                       /\ sim.summary[cb].received = there.received

\* The summary of a fee-bearing cover sequence, whose first forward step is
\* the direct transfer and whose second forward step carries no fee.
C29_Witness ==
    /\ sim.ran
    /\ sim.method = "cover" /\ ~sim.feeless /\ sim.amount = 50000
    /\ sim.steps[2].direction = "forward" /\ sim.steps[2].fee = 0
    /\ sim.summary["SHA"].senderFee = sim.steps[1].fee
    /\ sim.summary["SHA"].senderFee > 0

\* C30: for every corridor, method and charge bearer and every amount of at
\* least 100 (the amount input's minimum), the summary's amount after fee
\* deductions and the amount received are not negative.
C30_NonNegativeSummary ==
    (sim.ran /\ ~sim.feeless /\ sim.amount >= 100) =>
        \A cb \in ChargeBearer :
            /\ sim.summary[cb].amountAfterDeductions >= 0
            /\ sim.summary[cb].received.num >= 0

====
